---- MODULE Spec2Model ----
(***************************************************************************)
(* ClassyVision tutorial "Creating a custom model"                         *)
(* (tutorials/classy_model.ipynb).                                         *)
(*                                                                         *)
(* The notebook defines MyModel (adaptive average pooling to 1x1 followed  *)
(* by a linear layer with 3 inputs), registers it under "my_model",        *)
(* builds it from a configuration mapping and runs inference.              *)
(*                                                                         *)
(* The notebook's globals are the state: the registry, model_config,       *)
(* my_model and x.  Tensors are nested sequences x[n][c][h][w]; reals are  *)
(* exact rationals <<p, q>> in lowest terms with q > 0.  A pseudo-random   *)
(* draw (nn.Linear's initialisation, torch.rand) is a function of a seed,  *)
(* and the seed is chosen nondeterministically.                            *)
(***************************************************************************)
EXTENDS Integers, Sequences, FiniteSets, TLC

VARIABLES
    MODEL_REGISTRY, \* registered name -> model class
    model_config,   \* the configuration mapping last handed to a builder
    my_model,       \* the notebook's my_model (NoModel before it is bound)
    built_with,     \* history: the num_classes my_model was asked to have (-1: none)
    x,              \* the notebook's input batch x (<<>> before it is bound)
    out,            \* the value the last my_model(x) returned (<<>>: none)
    calls,          \* history: forward calls made on my_model since it was bound
    result          \* the last statement executed and how it ended

vars == <<MODEL_REGISTRY, model_config, my_model, built_with, x, out, calls, result>>

-----------------------------------------------------------------------------
(* Bounds of the model *)

MaxClasses == 2
MaxSeed == 2
MaxBatch == 2
MaxSide == 2
MaxPixel == 2
MaxCalls == 2

ClassCounts == 0..MaxClasses
Seeds == 1..MaxSeed

-----------------------------------------------------------------------------
(* Exact rational arithmetic *)

Abs(i) == IF i < 0 THEN -i ELSE i

RECURSIVE GCD(_, _)
GCD(a, b) == IF b = 0 THEN a ELSE GCD(b, a % b)

\* p/q in lowest terms, q > 0
Rat(p, q) ==
    LET g == GCD(Abs(p), q)
    IN  <<p \div g, q \div g>>

RatAdd(r, s) == Rat(r[1] * s[2] + s[1] * r[2], r[2] * s[2])

RatScale(w, r) == Rat(w * r[1], r[2])

RECURSIVE SumSeq(_)
SumSeq(s) == IF s = <<>> THEN 0 ELSE Head(s) + SumSeq(Tail(s))

RECURSIVE RatSum(_)
RatSum(s) == IF s = <<>> THEN Rat(0, 1) ELSE RatAdd(Head(s), RatSum(Tail(s)))

RECURSIVE Concat(_)
Concat(ss) == IF ss = <<>> THEN <<>> ELSE Head(ss) \o Concat(Tail(ss))

\* A pseudo-random integer in 0..m-1, a function of the seed and the
\* position i of the element drawn.
Uniform(seed, i, m) ==
    ((((seed + i) * (seed + i) * 37) + 11 * i + 5 * seed) % 101) % m

-----------------------------------------------------------------------------
(* torch.nn layers *)

\* nn.Linear(in_features, out_features): weight is out_features x in_features,
\* bias has out_features entries, both initialised at random.
Linear(in_features, out_features, seed) ==
    [in_features  |-> in_features,
     out_features |-> out_features,
     weight |-> [j \in 1..out_features |->
                   [c \in 1..in_features |->
                      Uniform(seed, (j - 1) * in_features + c, 5) - 2]],
     bias   |-> [j \in 1..out_features |->
                   Uniform(seed, out_features * in_features + j, 5) - 2]]

\* nn.AdaptiveAvgPool2d(output_size)
AdaptiveAvgPool2d(output_size) == [output_size |-> output_size]

-----------------------------------------------------------------------------
(* MyModel *)

\* num_channels as it would be for RGBA images
num_channels_rgba == 3 + 1

num_channels == 3

NoModel == [cls |-> "NoneType"]

\* MyModel.__init__(self, num_classes)
MyModel_init(num_classes, seed) ==
    [cls     |-> "MyModel",
     avgpool |-> AdaptiveAvgPool2d(<<1, 1>>),
     fc      |-> Linear(num_channels, num_classes, seed)]

\* from_config with a miscounted class count
from_config_off_by_one(config, seed) ==
    IF "num_classes" \in DOMAIN config
    THEN [status |-> "ok", model |-> MyModel_init(config["num_classes"] + 1, seed)]
    ELSE [status |-> "KeyError", model |-> NoModel]

\* from_config that also reads another field of the mapping
from_config_reads_extra(config, seed) ==
    IF "num_classes" \in DOMAIN config
    THEN [status |-> "ok",
          model |-> MyModel_init(IF "extra" \in DOMAIN config /\ config["extra"]
                                 THEN 0 ELSE config["num_classes"], seed)]
    ELSE [status |-> "KeyError", model |-> NoModel]

\* from_config with a default: config.get("num_classes", 0)
from_config_default(config, seed) ==
    [status |-> "ok",
     model |-> MyModel_init(IF "num_classes" \in DOMAIN config
                            THEN config["num_classes"] ELSE 0, seed)]

\* MyModel.from_config(cls, config): the instance, or the KeyError of the
\* lookup config["num_classes"].
from_config(config, seed) ==
    IF "num_classes" \in DOMAIN config
    THEN [status |-> "ok", model |-> MyModel_init(config["num_classes"], seed)]
    ELSE [status |-> "KeyError", model |-> NoModel]

\* The bin of output index i (1-based) of an adaptive pooling that maps
\* `size` positions to `osize`: positions BinStart+1 .. BinEnd.
BinStart(i, size, osize) == ((i - 1) * size) \div osize

BinEnd(i, size, osize) == (i * size + osize - 1) \div osize

\* The sum, not the mean, of plane[h1..h2][w1..w2]
BinSum(plane, h1, h2, w1, w2) ==
    Rat(SumSeq([h \in 1..(h2 - h1 + 1) |->
                  SumSeq(SubSeq(plane[h1 + h - 1], w1, w2))]),
        1)

\* The mean of plane[h1..h2][w1..w2]
BinMean(plane, h1, h2, w1, w2) ==
    Rat(SumSeq([h \in 1..(h2 - h1 + 1) |->
                  SumSeq(SubSeq(plane[h1 + h - 1], w1, w2))]),
        (h2 - h1 + 1) * (w2 - w1 + 1))

\* self.avgpool(x): every plane x[n][c] pooled to output_size
avgpool(layer, t) ==
    LET oh == layer.output_size[1]
        ow == layer.output_size[2]
    IN  [n \in 1..Len(t) |->
          [c \in 1..Len(t[n]) |->
            LET plane == t[n][c]
                H == Len(plane)
                W == Len(plane[1])
            IN  [i \in 1..oh |->
                  [j \in 1..ow |->
                    BinMean(plane,
                            BinStart(i, H, oh) + 1, BinEnd(i, H, oh),
                            BinStart(j, W, ow) + 1, BinEnd(j, W, ow))]]]]

\* out.reshape(1, -1): the whole batch flattened into one row
reshape_one_row(t) == << Concat([n \in 1..Len(t) |-> Concat(Concat(t[n]))]) >>

\* out.reshape(out.size(0), -1): each batch element flattened in row-major
\* order (channel, then row, then column)
reshape(t) == [n \in 1..Len(t) |-> Concat(Concat(t[n]))]

\* self.fc(inp): inp W^T + b, or the RuntimeError of a size mismatch
fc(layer, inp) ==
    IF \E n \in 1..Len(inp) : Len(inp[n]) # layer.in_features
    THEN [status |-> "RuntimeError", val |-> <<>>]
    ELSE [status |-> "ok",
          val |-> [n \in 1..Len(inp) |->
                    [j \in 1..layer.out_features |->
                      RatAdd(RatSum([c \in 1..layer.in_features |->
                                       RatScale(layer.weight[j][c], inp[n][c])]),
                             Rat(layer.bias[j], 1))]]]

\* MyModel.forward(self, x)
forward(self, t) == fc(self.fc, reshape(avgpool(self.avgpool, t)))

-----------------------------------------------------------------------------
(* The model registry of classy_vision.models *)

ModelNames == {"my_model", "other_model"}
ModelClasses == {"MyModel", "OtherModel"}

EmptyRegistry == [n \in {} |-> "MyModel"]

\* register_model(name)(cls): the registry with cls added under name; a
\* name already taken is refused.
register_model(registry, name, cls) ==
    IF name \in DOMAIN registry
    THEN [status |-> "ValueError", registry |-> registry]
    ELSE [status |-> "ok",
          registry |-> [n \in DOMAIN registry \cup {name} |->
                          IF n = name THEN cls ELSE registry[n]]]

\* cls.from_config(config) of a registered class; a class other than MyModel
\* is opaque.
class_from_config(cls, config, seed) ==
    IF cls = "MyModel"
    THEN from_config(config, seed)
    ELSE [status |-> "ok", model |-> [cls |-> cls]]

\* build_model that ignores config["name"] and takes some registered class
build_model_any(registry, config, seed) ==
    IF "name" \notin DOMAIN config
    THEN [status |-> "KeyError", model |-> NoModel]
    ELSE IF config["name"] \notin DOMAIN registry
    THEN [status |-> "unknown model", model |-> NoModel]
    ELSE class_from_config(registry[CHOOSE n \in DOMAIN registry : TRUE], config, seed)

\* build_model(config): the class registered under config["name"], built
\* from config.
build_model(registry, config, seed) ==
    IF "name" \notin DOMAIN config
    THEN [status |-> "KeyError", model |-> NoModel]
    ELSE IF config["name"] \notin DOMAIN registry
    THEN [status |-> "unknown model", model |-> NoModel]
    ELSE class_from_config(registry[config["name"]], config, seed)

-----------------------------------------------------------------------------
(* Inputs of the operations *)

\* Configuration mappings: any subset of the fields name, num_classes, extra
Configs ==
    { [name |-> n, num_classes |-> k, extra |-> e] :
        n \in ModelNames, k \in ClassCounts, e \in BOOLEAN }
    \cup { [name |-> n, num_classes |-> k] : n \in ModelNames, k \in ClassCounts }
    \cup { [name |-> n, extra |-> e] : n \in ModelNames, e \in BOOLEAN }
    \cup { [num_classes |-> k, extra |-> e] : k \in ClassCounts, e \in BOOLEAN }
    \cup { [name |-> n] : n \in ModelNames }
    \cup { [num_classes |-> k] : k \in ClassCounts }
    \cup { [extra |-> e] : e \in BOOLEAN }

EmptyConfig == [n \in {} |-> 0]

ChannelCounts == {num_channels - 1, num_channels, num_channels + 1}

Shapes == (1..MaxBatch) \X ChannelCounts \X (1..MaxSide) \X (1..MaxSide)

\* torch.rand(shape): pixel levels 0..MaxPixel drawn at random
torch_rand(shape, seed) ==
    [n \in 1..shape[1] |->
      [c \in 1..shape[2] |->
        [h \in 1..shape[3] |->
          [w \in 1..shape[4] |->
            Uniform(seed,
                    (((n - 1) * shape[2] + (c - 1)) * shape[3] + (h - 1)) * shape[4] + w,
                    MaxPixel + 1)]]]]

Inputs == { torch_rand(shape, seed) : shape \in Shapes, seed \in Seeds }

-----------------------------------------------------------------------------
(* The notebook's statements *)

Init ==
    /\ MODEL_REGISTRY = EmptyRegistry
    /\ model_config = EmptyConfig
    /\ my_model = NoModel
    /\ built_with = -1
    /\ x = <<>>
    /\ out = <<>>
    /\ calls = 0
    /\ result = [op |-> "none", status |-> "ok"]

\* The binding my_model = <instance>, or nothing on an exception
Bind(r, k) ==
    IF r.status = "ok"
    THEN /\ my_model' = r.model
         /\ built_with' = IF r.model.cls = "MyModel" THEN k ELSE -1
         /\ calls' = 0
    ELSE UNCHANGED <<my_model, built_with, calls>>

\* @register_model(name) class cls
RegisterModel(name, cls) ==
    LET r == register_model(MODEL_REGISTRY, name, cls)
    IN  /\ MODEL_REGISTRY' = r.registry
        /\ result' = [op |-> "register_model", status |-> r.status]
        /\ out' = <<>>
        /\ UNCHANGED <<model_config, my_model, built_with, x, calls>>

\* my_model = MyModel(num_classes=k)
Construct(k, seed) ==
    /\ Bind([status |-> "ok", model |-> MyModel_init(k, seed)], k)
    /\ result' = [op |-> "MyModel", status |-> "ok"]
    /\ out' = <<>>
    /\ UNCHANGED <<MODEL_REGISTRY, model_config, x>>

\* my_model = MyModel.from_config(config)
FromConfig(config, seed) ==
    LET r == from_config(config, seed)
    IN  /\ model_config' = config
        /\ Bind(r, IF "num_classes" \in DOMAIN config THEN config["num_classes"] ELSE -1)
        /\ result' = [op |-> "from_config", status |-> r.status]
        /\ out' = <<>>
        /\ UNCHANGED <<MODEL_REGISTRY, x>>

\* model_config = config; my_model = build_model(model_config)
BuildModel(config, seed) ==
    LET r == build_model(MODEL_REGISTRY, config, seed)
    IN  /\ model_config' = config
        /\ Bind(r, IF "num_classes" \in DOMAIN config THEN config["num_classes"] ELSE -1)
        /\ result' = [op |-> "build_model", status |-> r.status]
        /\ out' = <<>>
        /\ UNCHANGED <<MODEL_REGISTRY, x>>

\* x = torch.rand(shape)
Rand(t) ==
    /\ x' = t
    /\ result' = [op |-> "rand", status |-> "ok"]
    /\ out' = <<>>
    /\ UNCHANGED <<MODEL_REGISTRY, model_config, my_model, built_with, calls>>

\* A forward that builds its linear layer anew on every call
Forward_rebuilds_fc ==
    /\ my_model.cls = "MyModel"
    /\ x # <<>>
    /\ calls < MaxCalls
    /\ \E seed \in Seeds :
         LET m == [my_model EXCEPT !.fc = Linear(num_channels, built_with, seed)]
             r == forward(m, x)
         IN  /\ my_model' = m
             /\ out' = r.val
             /\ result' = [op |-> "forward", status |-> r.status]
    /\ calls' = calls + 1
    /\ UNCHANGED <<MODEL_REGISTRY, model_config, built_with, x>>

\* with torch.no_grad(): print(my_model(x))
Forward ==
    /\ my_model.cls = "MyModel"
    /\ x # <<>>
    /\ calls < MaxCalls
    /\ LET r == forward(my_model, x)
       IN  /\ out' = r.val
           /\ result' = [op |-> "forward", status |-> r.status]
    /\ calls' = calls + 1
    /\ UNCHANGED <<MODEL_REGISTRY, model_config, my_model, built_with, x>>

\* The configuration system: registering, building, constructing
Next ==
    \/ \E name \in ModelNames, cls \in ModelClasses : RegisterModel(name, cls)
    \/ \E k \in ClassCounts, seed \in Seeds : Construct(k, seed)
    \/ \E config \in Configs, seed \in Seeds : FromConfig(config, seed)
    \/ \E config \in Configs, seed \in Seeds : BuildModel(config, seed)

Spec == Init /\ [][Next]_vars

\* Inference: a constructed model invoked on input batches
NextInference ==
    \/ \E k \in ClassCounts, seed \in Seeds : Construct(k, seed)
    \/ \E t \in Inputs : Rand(t)
    \/ Forward

SpecInference == Init /\ [][NextInference]_vars

-----------------------------------------------------------------------------
(* Properties of the configuration system (Spec) *)

HasField(config, key) == key \in DOMAIN config

\* The layers of a model and their sizes, without the parameter values
Structure(m) ==
    [cls          |-> m.cls,
     avgpool      |-> m.avgpool,
     in_features  |-> m.fc.in_features,
     out_features |-> m.fc.out_features,
     weight_shape |-> <<Len(m.fc.weight),
                        {Len(m.fc.weight[j]) : j \in 1..Len(m.fc.weight)}>>,
     bias_shape   |-> Len(m.fc.bias)]

Parameters(m) == [weight |-> m.fc.weight, bias |-> m.fc.bias]

\* C1: once MyModel is registered under "my_model", build_model of a
\* configuration whose name is "my_model" and that has a num_classes field
\* returns an instance of MyModel; in general the instance built is of the
\* class registered under the configuration's name.
C1_NameSelectsClass ==
    (result.op = "build_model" /\ HasField(model_config, "name")
     /\ model_config["name"] \in DOMAIN MODEL_REGISTRY)
    => LET cls == MODEL_REGISTRY[model_config["name"]]
       IN  /\ (model_config["name"] = "my_model" /\ cls = "MyModel"
                /\ HasField(model_config, "num_classes"))
               => (result.status = "ok" /\ my_model.cls = "MyModel")
           /\ result.status = "ok" => my_model.cls = cls

C1_Witness ==
    /\ result = [op |-> "build_model", status |-> "ok"]
    /\ DOMAIN MODEL_REGISTRY = ModelNames
    /\ MODEL_REGISTRY["my_model"] = "MyModel"
    /\ MODEL_REGISTRY["other_model"] = "OtherModel"
    /\ model_config = [name |-> "my_model", num_classes |-> MaxClasses]
    /\ my_model.cls = "MyModel"

\* C2: MyModel.from_config(config) of a config whose num_classes is k
\* returns a MyModel whose linear layer has exactly k outputs and 3 inputs.
C2_FromConfigClassCount ==
    (result.op = "from_config" /\ HasField(model_config, "num_classes"))
    => LET k == model_config["num_classes"]
       IN  /\ result.status = "ok"
           /\ my_model.cls = "MyModel"
           /\ my_model.fc.out_features = k
           /\ my_model.fc.in_features = 3
           /\ Len(my_model.fc.weight) = k
           /\ \A j \in 1..k : Len(my_model.fc.weight[j]) = 3
           /\ Len(my_model.fc.bias) = k

C2_Witness ==
    /\ result = [op |-> "from_config", status |-> "ok"]
    /\ model_config = [num_classes |-> MaxClasses]
    /\ my_model.fc.out_features = MaxClasses
    /\ Len(my_model.fc.weight) = MaxClasses

\* C3: a model built by build_model from a configuration whose num_classes
\* is k is one that MyModel(num_classes=k) constructs: it has the structure
\* of every directly constructed MyModel(k) and, where the parameters are
\* equal, forward agrees on every input; the other fields of the mapping do
\* not enter.
C3_BuiltEqualsConstructed ==
    (result = [op |-> "build_model", status |-> "ok"] /\ my_model.cls = "MyModel")
    => LET k == model_config["num_classes"]
       IN  /\ \E seed \in Seeds : my_model = MyModel_init(k, seed)
           /\ \A seed \in Seeds :
                LET direct == MyModel_init(k, seed)
                IN  /\ Structure(my_model) = Structure(direct)
                    /\ Parameters(my_model) = Parameters(direct)
                        => \A t \in Inputs : forward(my_model, t) = forward(direct, t)

C3_Witness ==
    /\ result = [op |-> "build_model", status |-> "ok"]
    /\ model_config = [name |-> "my_model", num_classes |-> MaxClasses, extra |-> TRUE]
    /\ my_model = MyModel_init(MaxClasses, MaxSeed)

\* C7: from_config of a configuration without a num_classes field ends in a
\* KeyError and binds no model: my_model is what it was, no model with a
\* default class count takes its place.
C7_MissingNumClassesFails ==
    [][(result'.op = "from_config" /\ ~HasField(model_config', "num_classes"))
       => (result'.status = "KeyError"
           /\ my_model' = my_model
           /\ built_with' = built_with)]_vars

C7_Witness ==
    /\ result = [op |-> "from_config", status |-> "KeyError"]
    /\ model_config = [name |-> "my_model"]
    /\ my_model.cls = "MyModel"
    /\ built_with = MaxClasses

-----------------------------------------------------------------------------
(* Properties of inference (SpecInference) *)

\* All the pixels of a plane, in row-major order
Pixels(plane) == Concat(plane)

\* The mean of all the pixels of a plane
PlaneMean(plane) == Rat(SumSeq(Pixels(plane)), Len(Pixels(plane)))

\* b[j] + sum over the channels c of W[j][c] * mean of image[c]
ClosedForm(m, image, j) ==
    RatAdd(Rat(m.fc.bias[j], 1),
           RatSum([c \in 1..Len(image) |->
                     RatScale(m.fc.weight[j][c], PlaneMean(image[c]))]))

RECURSIVE Reverse(_)
Reverse(s) == IF s = <<>> THEN <<>> ELSE Reverse(Tail(s)) \o <<Head(s)>>

\* The batch with the pixels of every plane put in one row, in reverse order
Rearranged(t) ==
    [n \in 1..Len(t) |-> [c \in 1..Len(t[n]) |-> << Reverse(Pixels(t[n][c])) >>]]

\* C4: forward of a model built with num_classes = k on a batch of N
\* elements with 3 channels returns N rows of k outputs, whatever the
\* spatial size.
C4_OutputShape ==
    (result.op = "forward" /\ Len(x[1]) = 3)
    => /\ result.status = "ok"
       /\ Len(out) = Len(x)
       /\ \A n \in 1..Len(x) : Len(out[n]) = built_with

C4_Witness ==
    /\ result = [op |-> "forward", status |-> "ok"]
    /\ Len(x) = MaxBatch /\ Len(x[1]) = 3
    /\ Len(x[1][1]) = 1 /\ Len(x[1][1][1]) = MaxSide
    /\ built_with = MaxClasses
    /\ Len(out) = MaxBatch /\ Len(out[MaxBatch]) = MaxClasses

\* C5: forward is average pooling followed by the linear projection:
\* out[n][j] = b[j] + sum_c W[j][c] * mean(x[n][c]); the row of element n is
\* what forward returns for element n alone, and rearranging the pixels of
\* the planes does not change the output.
C5_PoolThenProject ==
    (result = [op |-> "forward", status |-> "ok"])
    => /\ \A n \in 1..Len(x) : \A j \in 1..my_model.fc.out_features :
            out[n][j] = ClosedForm(my_model, x[n], j)
       /\ \A n \in 1..Len(x) : forward(my_model, <<x[n]>>).val = <<out[n]>>
       /\ forward(my_model, Rearranged(x)).val = out

C5_Witness ==
    /\ result = [op |-> "forward", status |-> "ok"]
    /\ Len(x) = 2 /\ Len(x[1][1]) = MaxSide /\ Len(x[1][1][1]) = MaxSide
    /\ x[1] # x[2]
    /\ Rearranged(x) # x
    /\ built_with = 2
    /\ out[1] # out[2]
    /\ out[1][1] # out[1][2]
    /\ out[1][1][2] # 1

\* C6: a forward call leaves the model as it was (parameters and number of
\* classes), and a forward call that follows a forward call, on the same
\* input, returns the same output.
C6_ForwardLeavesModel ==
    [][(result'.op = "forward")
       => (/\ my_model' = my_model
           /\ built_with' = built_with
           /\ result.op = "forward" => (out' = out /\ result' = result))]_vars

C6_Witness ==
    /\ result = [op |-> "forward", status |-> "ok"]
    /\ calls = MaxCalls
    /\ built_with = MaxClasses
    /\ out = forward(my_model, x).val

\* C8: the linear layer has 3 inputs whatever the class count, and forward
\* on a batch whose channel count is not 3 ends in the linear layer's
\* RuntimeError and returns nothing.
C8_OnlyThreeChannels ==
    /\ my_model.cls = "MyModel" => my_model.fc.in_features = 3
    /\ (result.op = "forward" /\ Len(x[1]) # 3)
       => (result.status = "RuntimeError" /\ out = <<>>)

C8_Witness ==
    /\ result = [op |-> "forward", status |-> "RuntimeError"]
    /\ Len(x[1]) = 4
    /\ built_with = MaxClasses

====
